---------------------------- MODULE Spec2Model ----------------------------
(***************************************************************************)
(* dex-honeypot-mcp: chain resolver, address validator, honeypot query and *)
(* result formatter.                                                       *)
(*                                                                         *)
(* Strings are sequences of one-character strings, so that lower-casing,   *)
(* regular-expression matching and property lookup are computed character  *)
(* by character.  JavaScript values are records tagged by a "type" field.  *)
(***************************************************************************)
EXTENDS Integers, Sequences, FiniteSets, TLC

VARIABLES
    rChain,     \* resolver harness: the argument given to normalizeChainId
    rOut,       \* resolver harness: normalizeChainId(rChain)
    rOut2,      \* resolver harness: normalizeChainId applied to rOut
    vAddr,      \* validator harness: the argument given to isValidAddress
    vOut,       \* validator harness: isValidAddress(vAddr)
    mData,      \* mapping harness: the parsed body given to the mapping
    mOut,       \* mapping harness: the result record built from mData
    fResult,    \* formatter harness: the record given to formatHoneypotResult
    fOut,       \* formatter harness: formatHoneypotResult(fResult)
    tOut,       \* tool harness: what a tool handler of the server returned
    API_KEY,    \* process.env.HONEYPOT_API_KEY, read once when the module loads
    call,       \* per invocation of checkHoneypot: implementation and arguments
    pc,         \* per invocation: where it is suspended
    requests,   \* per invocation: the outbound requests it has issued, in order
    timer,      \* per invocation: its timeout timer (unset, armed, cleared, fired)
    elapsedAt,  \* per invocation: the await during which 30 seconds ran out
    net,        \* per invocation: what the upstream answered
    outcome     \* per invocation: the value returned or the error thrown

resolverVars == <<rChain, rOut, rOut2>>
validatorVars == <<vAddr, vOut>>
mappingVars == <<mData, mOut>>
formatVars == <<fResult, fOut>>
toolVars == <<tOut>>
harnessVars ==
    <<rChain, rOut, rOut2, vAddr, vOut, mData, mOut, fResult, fOut, tOut>>
callVars == <<API_KEY, call, pc, requests, timer, elapsedAt, net, outcome>>
vars == <<rChain, rOut, rOut2, vAddr, vOut, mData, mOut, fResult, fOut, tOut,
          API_KEY, call, pc, requests, timer, elapsedAt, net, outcome>>

-----------------------------------------------------------------------------
(* JavaScript values *)

Undefined == [type |-> "undefined"]
Pending == [type |-> "pending"]
\* A string held character by character, and a string held whole.
Str(s) == [type |-> "string", val |-> s]
Text(t) == [type |-> "string", text |-> t]
Bool(b) == [type |-> "boolean", val |-> b]
Throw(name) == [type |-> "throw", error |-> name]
ObjectConstructor == [type |-> "function", name |-> "Object"]
ObjectPrototype == [type |-> "object", name |-> "Object.prototype"]
NativeMethod(n) == [type |-> "function", name |-> n]

\* ToBoolean of the values the model handles: undefined and "" are falsy.
Truthy(v) ==
    CASE v.type = "undefined" -> FALSE
      [] v.type = "null" -> FALSE
      [] v.type = "number" -> v.val # 0
      [] v.type = "string" ->
            IF "val" \in DOMAIN v THEN v.val # <<>> ELSE v.text # ""
      [] v.type = "boolean" -> v.val
      [] OTHER -> TRUE

-----------------------------------------------------------------------------
(* Characters *)

LowerLetters ==
    << "a", "b", "c", "d", "e", "f", "g", "h", "i", "j", "k", "l", "m",
       "n", "o", "p", "q", "r", "s", "t", "u", "v", "w", "x", "y", "z" >>
UpperLetters ==
    << "A", "B", "C", "D", "E", "F", "G", "H", "I", "J", "K", "L", "M",
       "N", "O", "P", "Q", "R", "S", "T", "U", "V", "W", "X", "Y", "Z" >>
Digits == << "0", "1", "2", "3", "4", "5", "6", "7", "8", "9" >>

\* The code units between the ranges of the address pattern, in code order:
\* "/" 47, "0".."9" 48..57, ":" 58, "@" 64, "A".."Z" 65..90, "[" 91,
\* "_" 95, "a".."z" 97..122, "{" 123; "\n" 10 and " " 32 below them.
CharCode(c) ==
    CASE \E i \in 1..10 : Digits[i] = c ->
            47 + (CHOOSE i \in 1..10 : Digits[i] = c)
      [] \E i \in 1..26 : UpperLetters[i] = c ->
            64 + (CHOOSE i \in 1..26 : UpperLetters[i] = c)
      [] \E i \in 1..26 : LowerLetters[i] = c ->
            96 + (CHOOSE i \in 1..26 : LowerLetters[i] = c)
      [] c = "\n" -> 10
      [] c = " " -> 32
      [] c = "/" -> 47
      [] c = ":" -> 58
      [] c = "@" -> 64
      [] c = "[" -> 91
      [] c = "_" -> 95
      [] c = "{" -> 123

ToLowerChar(c) ==
    IF \E i \in 1..26 : UpperLetters[i] = c
    THEN LowerLetters[CHOOSE i \in 1..26 : UpperLetters[i] = c]
    ELSE c

ToUpperChar(c) ==
    IF \E i \in 1..26 : LowerLetters[i] = c
    THEN UpperLetters[CHOOSE i \in 1..26 : LowerLetters[i] = c]
    ELSE c

\* String.prototype.toLowerCase
ToLowerCase(s) == [i \in 1..Len(s) |-> ToLowerChar(s[i])]

-----------------------------------------------------------------------------
(* Chain resolver *)

\* The object literal CHAIN_IDS: its own properties, in source order.
CHAIN_IDS ==
    <<
       <<<<"e", "t", "h">>, <<"1">>>>,
       <<<<"e", "t", "h", "e", "r", "e", "u", "m">>, <<"1">>>>,
       <<<<"b", "s", "c">>, <<"5", "6">>>>,
       <<<<"b", "i", "n", "a", "n", "c", "e">>, <<"5", "6">>>>,
       <<<<"p", "o", "l", "y", "g", "o", "n">>, <<"1", "3", "7">>>>,
       <<<<"m", "a", "t", "i", "c">>, <<"1", "3", "7">>>>,
       <<<<"a", "r", "b", "i", "t", "r", "u", "m">>, <<"4", "2", "1", "6", "1">>>>,
       <<<<"a", "r", "b">>, <<"4", "2", "1", "6", "1">>>>,
       <<<<"b", "a", "s", "e">>, <<"8", "4", "5", "3">>>>,
       <<<<"o", "p", "t", "i", "m", "i", "s", "m">>, <<"1", "0">>>>,
       <<<<"a", "v", "a", "l", "a", "n", "c", "h", "e">>, <<"4", "3", "1", "1", "4">>>>,
       <<<<"a", "v", "a", "x">>, <<"4", "3", "1", "1", "4">>>>,
       <<<<"f", "a", "n", "t", "o", "m">>, <<"2", "5", "0">>>>,
       <<<<"f", "t", "m">>, <<"2", "5", "0">>>>
    >>

\* CHAIN_IDS is a plain object, so a property read that finds no own property
\* goes on to Object.prototype: its property names, each with its value.
ObjectPrototypeProperties ==
    <<
       <<<<"c", "o", "n", "s", "t", "r", "u", "c", "t", "o", "r">>,
         ObjectConstructor>>,
       <<<<"_", "_", "p", "r", "o", "t", "o", "_", "_">>,
         ObjectPrototype>>,
       <<<<"h", "a", "s", "O", "w", "n", "P", "r", "o", "p", "e", "r", "t", "y">>,
         NativeMethod("hasOwnProperty")>>,
       <<<<"i", "s", "P", "r", "o", "t", "o", "t", "y", "p", "e", "O", "f">>,
         NativeMethod("isPrototypeOf")>>,
       <<<<"p", "r", "o", "p", "e", "r", "t", "y", "I", "s", "E", "n", "u", "m", "e", "r", "a", "b", "l", "e">>,
         NativeMethod("propertyIsEnumerable")>>,
       <<<<"t", "o", "L", "o", "c", "a", "l", "e", "S", "t", "r", "i", "n", "g">>,
         NativeMethod("toLocaleString")>>,
       <<<<"t", "o", "S", "t", "r", "i", "n", "g">>,
         NativeMethod("toString")>>,
       <<<<"v", "a", "l", "u", "e", "O", "f">>,
         NativeMethod("valueOf")>>
    >>

\* obj[key] on a plain object: an own property first, then Object.prototype,
\* else undefined.
GetProperty(own, key) ==
    IF \E i \in 1..Len(own) : own[i][1] = key
    THEN Str(own[CHOOSE i \in 1..Len(own) : own[i][1] = key][2])
    ELSE IF \E i \in 1..Len(ObjectPrototypeProperties) :
                ObjectPrototypeProperties[i][1] = key
         THEN ObjectPrototypeProperties[
                CHOOSE i \in 1..Len(ObjectPrototypeProperties) :
                    ObjectPrototypeProperties[i][1] = key][2]
         ELSE Undefined

\* Mutant: the table is looked up with the argument as given, not lower-cased.
normalizeChainId_NoLowerCase(chain) ==
    IF chain.type # "string"
    THEN Throw("TypeError")
    ELSE LET hit == GetProperty(CHAIN_IDS, chain.val)
         IN  IF Truthy(hit) THEN hit ELSE chain

\* normalizeChainId: chain.toLowerCase() throws a TypeError on a value that
\* has no such method; CHAIN_IDS[lowerChain] || chain.
normalizeChainId(chain) ==
    IF chain.type # "string"
    THEN Throw("TypeError")
    ELSE LET lowerChain == ToLowerCase(chain.val)
             hit == GetProperty(CHAIN_IDS, lowerChain)
         IN  IF Truthy(hit) THEN hit ELSE chain

AliasKeys == {CHAIN_IDS[i][1] : i \in 1..Len(CHAIN_IDS)}
ChainIdValues == {CHAIN_IDS[i][2] : i \in 1..Len(CHAIN_IDS)}

\* Every spelling of s in upper and lower case.
RECURSIVE CaseVariants(_)
CaseVariants(s) ==
    IF s = <<>>
    THEN {<<>>}
    ELSE {<<c>> \o t : c \in {ToLowerChar(Head(s)), ToUpperChar(Head(s))},
                       t \in CaseVariants(Tail(s))}

\* Strings that are no alias: the empty string, chain identifiers, near
\* misses, and names of properties of Object.prototype.
OtherChainInputs ==
    {
      <<>>,
      <<"1">>,
      <<"5", "6">>,
      <<"1", "3", "7">>,
      <<"4", "2", "1", "6", "1">>,
      <<"8", "4", "5", "3">>,
      <<"1", "0">>,
      <<"4", "3", "1", "1", "4">>,
      <<"2", "5", "0">>,
      <<"0">>,
      <<"u", "n", "k", "n", "o", "w", "n">>,
      <<"U", "n", "k", "n", "o", "w", "n">>,
      <<"s", "o", "l", "a", "n", "a">>,
      <<"e", "t", "h", "h">>,
      <<"e", "t">>,
      <<"e", "t", "h", " ">>,
      <<"c", "o", "n", "s", "t", "r", "u", "c", "t", "o", "r">>,
      <<"C", "o", "n", "s", "t", "r", "u", "c", "t", "o", "r">>,
      <<"_", "_", "p", "r", "o", "t", "o", "_", "_">>,
      <<"t", "o", "S", "t", "r", "i", "n", "g">>,
      <<"t", "o", "s", "t", "r", "i", "n", "g">>,
      <<"h", "a", "s", "O", "w", "n", "P", "r", "o", "p", "e", "r", "t", "y">>,
      <<"v", "a", "l", "u", "e", "O", "f">>,
      <<"v", "a", "l", "u", "e", "o", "f">>
    }

ChainInputs ==
    UNION {CaseVariants(k) : k \in AliasKeys} \cup OtherChainInputs

-----------------------------------------------------------------------------
(* Resolver harness: normalizeChainId applied once, then again to its result *)

InitResolver ==
    /\ rChain \in ChainInputs
    /\ rOut = Pending
    /\ rOut2 = Pending

Resolve ==
    /\ rOut = Pending
    /\ rOut' = normalizeChainId(Str(rChain))
    /\ UNCHANGED <<rChain, rOut2>>

ResolveAgain ==
    /\ rOut # Pending
    /\ rOut2 = Pending
    /\ rOut2' = normalizeChainId(rOut)
    /\ UNCHANGED <<rChain, rOut>>

IdleValidator == vAddr = <<>> /\ vOut = Pending


-----------------------------------------------------------------------------
(* Address validator *)

AddressHexDigits == 40

\* The regular expression /^0x[a-fA-F0-9]{40}$/ (no flags): start of input,
\* the characters 0 and x, forty characters of the class, end of input.
AddressPattern ==
    << [op |-> "bol"],
       [op |-> "char", c |-> "0"],
       [op |-> "char", c |-> "x"],
       [op |-> "class",
        ranges |-> << <<"a", "f">>, <<"A", "F">> , <<"0", "9">> >>,
        count |-> AddressHexDigits],
       [op |-> "eol"] >>

\* A class matches a character whose code lies in one of its ranges.
InClass(ranges, c) ==
    \E r \in 1..Len(ranges) :
        /\ CharCode(ranges[r][1]) <= CharCode(c)
        /\ CharCode(c) <= CharCode(ranges[r][2])

\* Whether the elements pi.. of the pattern match s from position si on.
\* Without the m flag, ^ matches only before the first character and $ only
\* after the last one.
RECURSIVE MatchAt(_, _, _, _)
MatchAt(pat, pi, s, si) ==
    IF pi > Len(pat)
    THEN TRUE
    ELSE LET e == pat[pi]
         IN  CASE e.op = "bol" ->
                    si = 1 /\ MatchAt(pat, pi + 1, s, si)
               [] e.op = "eol" ->
                    si = Len(s) + 1 /\ MatchAt(pat, pi + 1, s, si)
               [] e.op = "char" ->
                    /\ si <= Len(s)
                    /\ s[si] = e.c
                    /\ MatchAt(pat, pi + 1, s, si + 1)
               [] e.op = "class" ->
                    /\ si + e.count - 1 <= Len(s)
                    /\ \A k \in 0..(e.count - 1) : InClass(e.ranges, s[si + k])
                    /\ MatchAt(pat, pi + 1, s, si + e.count)

\* RegExp.prototype.test: a match starting at any position of the input.
RegexTest(pat, s) == \E start \in 1..(Len(s) + 1) : MatchAt(pat, 1, s, start)

\* Mutant: the pattern without its end anchor, /^0x[a-fA-F0-9]{40}/.
isValidAddress_NoEndAnchor(address) ==
    RegexTest(SubSeq(AddressPattern, 1, Len(AddressPattern) - 1), address)

isValidAddress(address) == RegexTest(AddressPattern, address)

-----------------------------------------------------------------------------
(* Validator harness: isValidAddress applied to strings around the shape *)

Fill(c, n) == [i \in 1..n |-> c]

\* n copies of c, with the character at position k (if any) replaced by d.
BodyWith(c, n, k, d) == [i \in 1..n |-> IF i = k THEN d ELSE c]

AddressPrefixes ==
    { <<"0", "x">>, <<"0", "X">>, <<>>, <<"x">>, <<"0">>, <<"1", "x">>,
      <<" ", "0", "x">>, <<"0", "x", "0", "x">> }
AddressSuffixes == { <<>>, <<"\n">>, <<" ">> }
HexFill == {"0", "9", "a", "f", "A", "F"}
\* Characters next to the ends of the three ranges, and a few others.
OddChars == {"/", ":", "@", "G", "[", "_", "g", "x", "X", "z", " ", "\n"}
BodyLengths ==
    {0, 1, AddressHexDigits - 1, AddressHexDigits, AddressHexDigits + 1,
     2 * AddressHexDigits}

\* The addresses of the test suite.
TestAddresses ==
    {
      <<"0", "x", "1", "2", "3", "4", "5", "6", "7", "8", "9", "0", "1", "2", "3", "4", "5", "6", "7", "8", "9", "0", "1", "2", "3", "4", "5", "6", "7", "8", "9", "0", "1", "2", "3", "4", "5", "6", "7", "8", "9", "0">>,
      <<"0", "x", "a", "b", "c", "d", "e", "f", "A", "B", "C", "D", "E", "F", "1", "2", "3", "4", "5", "6", "7", "8", "9", "0", "1", "2", "3", "4", "5", "6", "7", "8", "9", "0", "1", "2", "3", "4", "5", "6", "7", "8">>,
      <<"0", "x", "0", "0", "0", "0", "0", "0", "0", "0", "0", "0", "0", "0", "0", "0", "0", "0", "0", "0", "0", "0", "0", "0", "0", "0", "0", "0", "0", "0", "0", "0", "0", "0", "0", "0", "0", "0", "0", "0", "0", "0">>,
      <<>>,
      <<"0", "x">>,
      <<"0", "x", "1", "2", "3">>,
      <<"1", "2", "3", "4", "5", "6", "7", "8", "9", "0", "1", "2", "3", "4", "5", "6", "7", "8", "9", "0", "1", "2", "3", "4", "5", "6", "7", "8", "9", "0", "1", "2", "3", "4", "5", "6", "7", "8", "9", "0">>,
      <<"0", "x", "G", "G", "G", "G", "5", "6", "7", "8", "9", "0", "1", "2", "3", "4", "5", "6", "7", "8", "9", "0", "1", "2", "3", "4", "5", "6", "7", "8", "9", "0", "1", "2", "3", "4", "5", "6", "7", "8", "9", "0">>,
      <<"0", "x", "1", "2", "3", "4", "5", "6", "7", "8", "9", "0", "1", "2", "3", "4", "5", "6", "7", "8", "9", "0", "1", "2", "3", "4", "5", "6", "7", "8", "9", "0", "1", "2", "3", "4", "5", "6", "7", "8", "9", "0", "1">>,
      <<"0", "x", "1", "2", "3", "4", "5", "6", "7", "8", "9", "0", "1", "2", "3", "4", "5", "6", "7", "8", "9", "0", "1", "2", "3", "4", "5", "6", "7", "8", "9", "0", "1", "2", "3", "4", "5", "6", "7", "8", "9">>
    }

AddressInputs ==
    TestAddresses \cup
    { p \o BodyWith(c, n, k, d) \o x :
        p \in AddressPrefixes, c \in HexFill, n \in BodyLengths,
        k \in {0, 1, AddressHexDigits}, d \in OddChars \cup HexFill,
        x \in AddressSuffixes }

IdleResolver == rChain = <<>> /\ rOut = Pending /\ rOut2 = Pending

InitValidator ==
    /\ vAddr \in AddressInputs
    /\ vOut = Pending

Validate ==
    /\ vOut = Pending
    /\ vOut' = Bool(isValidAddress(vAddr))
    /\ UNCHANGED vAddr


-----------------------------------------------------------------------------
(* Properties of the address validator and of the chain resolver *)

\* C6: isValidAddress(s) is true if and only if s is "0x" (lower-case x)
\* followed by exactly 40 characters, each one of 0-9, a-f, A-F, and nothing
\* else: 42 characters in all, whatever the case of the hex digits.
C6_ValidIffShape ==
    LET hex == {"0", "1", "2", "3", "4", "5", "6", "7", "8", "9",
                "a", "b", "c", "d", "e", "f", "A", "B", "C", "D", "E", "F"}
        shaped == /\ Len(vAddr) = 42
                  /\ vAddr[1] = "0"
                  /\ vAddr[2] = "x"
                  /\ \A i \in 3..42 : vAddr[i] \in hex
    IN  vOut # Pending => vOut = Bool(shaped)

\* C6 witness: an address of the shape with hex digits in both cases has been
\* accepted.
C6_Witness ==
    /\ vOut = Bool(TRUE)
    /\ \E i, j \in 3..Len(vAddr) : vAddr[i] = "a" /\ vAddr[j] = "F"

\* C7: a string whose lower-cased form is not one of the 14 alias keys comes
\* back from normalizeChainId as that same string, unchanged: never a failure,
\* never a value that is not a string.
C7_UnknownPassesThrough ==
    LET aliases == { <<"e", "t", "h">>, <<"e", "t", "h", "e", "r", "e", "u", "m">>,
                     <<"b", "s", "c">>, <<"b", "i", "n", "a", "n", "c", "e">>,
                     <<"p", "o", "l", "y", "g", "o", "n">>, <<"m", "a", "t", "i", "c">>,
                     <<"a", "r", "b", "i", "t", "r", "u", "m">>, <<"a", "r", "b">>,
                     <<"b", "a", "s", "e">>, <<"o", "p", "t", "i", "m", "i", "s", "m">>,
                     <<"a", "v", "a", "l", "a", "n", "c", "h", "e">>, <<"a", "v", "a", "x">>,
                     <<"f", "a", "n", "t", "o", "m">>, <<"f", "t", "m">> }
    IN  (rOut # Pending /\ ToLowerCase(rChain) \notin aliases)
            => rOut = Str(rChain)

\* C8: every alias of the documented table, in every spelling of upper and
\* lower case, resolves to the chain identifier the table gives it.
C8_AliasesResolve ==
    LET table ==
          { << <<"e", "t", "h">>, <<"1">> >>,
            << <<"e", "t", "h", "e", "r", "e", "u", "m">>, <<"1">> >>,
            << <<"b", "s", "c">>, <<"5", "6">> >>,
            << <<"b", "i", "n", "a", "n", "c", "e">>, <<"5", "6">> >>,
            << <<"p", "o", "l", "y", "g", "o", "n">>, <<"1", "3", "7">> >>,
            << <<"m", "a", "t", "i", "c">>, <<"1", "3", "7">> >>,
            << <<"a", "r", "b", "i", "t", "r", "u", "m">>, <<"4", "2", "1", "6", "1">> >>,
            << <<"a", "r", "b">>, <<"4", "2", "1", "6", "1">> >>,
            << <<"b", "a", "s", "e">>, <<"8", "4", "5", "3">> >>,
            << <<"o", "p", "t", "i", "m", "i", "s", "m">>, <<"1", "0">> >>,
            << <<"a", "v", "a", "l", "a", "n", "c", "h", "e">>, <<"4", "3", "1", "1", "4">> >>,
            << <<"a", "v", "a", "x">>, <<"4", "3", "1", "1", "4">> >>,
            << <<"f", "a", "n", "t", "o", "m">>, <<"2", "5", "0">> >>,
            << <<"f", "t", "m">>, <<"2", "5", "0">> >> }
    IN  rOut # Pending =>
            \A e \in table :
                (/\ Len(rChain) = Len(e[1])
                 /\ \A i \in 1..Len(rChain) :
                        rChain[i] \in {e[1][i], ToUpperChar(e[1][i])})
                    => rOut = Str(e[2])

\* C8 witness: a mixed-case spelling of an alias has been resolved.
C8_Witness ==
    /\ rChain = <<"A", "v", "a", "L", "a", "n", "c", "h", "E">>
    /\ rOut = Str(<<"4", "3", "1", "1", "4">>)

\* C9: normalizeChainId is idempotent: applied to its own result it returns
\* that result again, for every input string; and no chain identifier of the
\* table is itself an alias key.
C9_Idempotent ==
    /\ rOut2 # Pending => rOut2 = rOut
    /\ ChainIdValues \cap AliasKeys = {}

-----------------------------------------------------------------------------
(* JavaScript objects as parsed from JSON, and the operators read on them *)

Null == [type |-> "null"]
Num(n) == [type |-> "number", val |-> n]
Obj(props) == [type |-> "object", props |-> props]
Arr(items) == [type |-> "array", items |-> items]

Nullish(v) == v.type \in {"undefined", "null"}

\* v.f: undefined when the property is missing (reading a property of
\* undefined or null throws; callers test Nullish first).
Get(v, f) ==
    IF v.type = "object" /\ f \in DOMAIN v.props THEN v.props[f] ELSE Undefined

\* v?.f
OptGet(v, f) == IF Nullish(v) THEN Undefined ELSE Get(v, f)

\* a ?? b
Coalesce(a, b) == IF Nullish(a) THEN b ELSE a

\* a || b
OrElse(a, b) == IF Truthy(a) THEN a ELSE b

Without(props, f) == [k \in DOMAIN props \ {f} |-> props[k]]
With(props, f, v) == [k \in DOMAIN props \cup {f} |-> IF k = f THEN v ELSE props[k]]

-----------------------------------------------------------------------------
(* The upstream API: statuses and bodies it may answer with *)

\* Tax rates are decimal fractions, held in units of 1/10000 (0.01 is 100).
SimulationProps ==
    [buyTax |-> Num(100), sellTax |-> Num(1250), transferTax |-> Num(0),
     buyGas |-> Num(150000), sellGas |-> Num(0)]

PairProps ==
    [pair |-> Text("0xabcd..."), chainId |-> Text("1"),
     reserves0 |-> Text("1000000"), reserves1 |-> Text("500000"),
     liquidity |-> Num(50000), router |-> Text("0xrouter..."),
     createdAtTimestamp |->
         Str(<<"1", "7", "0", "0", "0", "0", "0", "0", "0", "0">>)]

HolderProps ==
    [holders |-> Num(100), successful |-> Num(90), failed |-> Num(10),
     siphoned |-> Num(0), averageTax |-> Num(200), averageGas |-> Num(150000),
     highestTax |-> Num(500), highTaxWallets |-> Num(5),
     taxDistribution |-> Obj([bucket5 |-> Num(3)])]

\* A response body carrying every field either implementation reads.
FullProps ==
    [simulationSuccess |-> Bool(TRUE),
     honeypotResult |-> Obj([isHoneypot |-> Bool(FALSE)]),
     simulationResult |-> Obj(SimulationProps),
     token |-> Obj([name |-> Str(<<"T", "*", "K", "_", "N">>), symbol |-> Text("TEST"),
                    decimals |-> Num(18),
                    totalSupply |-> Text("1000000000000000000000000")]),
     chain |-> Obj([id |-> Text("1"), name |-> Str(<<"E", "t", "h">>),
                    shortName |-> Text("ETH"), currency |-> Text("ETH")]),
     contractAddress |-> Text("0x1234567890123456789012345678901234567890"),
     pair |-> Obj(PairProps),
     flags |-> Arr(<<Text("HIGH_BUY_TAX"), Text("LOW_LIQUIDITY")>>),
     holderAnalysis |-> Obj(HolderProps),
     summary |-> Obj([risk |-> Str(<<"l", "o", "w">>)]),
     contractCode |-> Obj([openSource |-> Bool(TRUE)])]

\* The parsed bodies of the model: the full one with every subset of its
\* top-level fields, variations of single fields, and JSON that is no object.
Payloads ==
    {Obj([k \in S |-> FullProps[k]]) : S \in SUBSET DOMAIN FullProps}
    \cup {Obj(With(FullProps, "simulationResult", Obj(Without(SimulationProps, f)))) :
            f \in DOMAIN SimulationProps}
    \cup {Obj(With(FullProps, "simulationResult",
                   Obj(With(SimulationProps, "sellTax", Null)))),
          Obj(With(FullProps, "flags", Arr(<<>>))),
          Obj(With(FullProps, "pair", Null)),
          Obj(With(With(FullProps, "simulationSuccess", Bool(FALSE)),
                   "simulationError", Text("Insufficient liquidity"))),
          Obj(With(FullProps, "honeypotResult",
                   Obj([isHoneypot |-> Bool(TRUE),
                        honeypotReason |-> Text("Cannot sell")]))),
          Obj(With(FullProps, "contractCode", Obj([openSource |-> Bool(FALSE)]))),
          Null,
          Num(5)}

\* What the upstream sends as the body: JSON text of a payload, text that is
\* not JSON (the empty body included), or a stream that breaks while read.
JsonBody(p) == [kind |-> "json", data |-> p]
TextBody(t) == [kind |-> "text", text |-> t]
BrokenBody == [kind |-> "broken"]
NoBody == [kind |-> "none"]

\* The bodies the upstream of the model answers an invocation with.
CallPayloads ==
    { Obj(FullProps),
      Obj(Without(FullProps, "simulationResult")),
      Obj(Without(FullProps, "honeypotResult")),
      Null }
ErrorBodies == {TextBody(""), TextBody("rate limit exceeded"), BrokenBody}
SuccessBodies ==
    {JsonBody(p) : p \in CallPayloads} \cup {TextBody("<html>"), BrokenBody}

Statuses == {200, 404, 500}
StatusText(status) ==
    CASE status = 200 -> "OK"
      [] status = 404 -> "Not Found"
      [] status = 500 -> "Internal Server Error"

\* Response.ok
Ok(status) == 200 <= status /\ status <= 299

BodiesFor(status) == IF Ok(status) THEN SuccessBodies ELSE ErrorBodies

-----------------------------------------------------------------------------
(* Invocations of checkHoneypot: state *)

NumCalls == 2
Calls == 1..NumCalls

Awaiting == {"awaitFetch", "awaitText", "awaitJson"}

NoCall == [impl |-> "none"]
NoResponse == [status |-> 0, statusText |-> "", body |-> NoBody]

\* Error(message): the fixed text of the message and the values put into it.
Err(name, message, args) ==
    [type |-> "error", name |-> name, message |-> message, args |-> args]
Result(v) == [type |-> "result", value |-> v]

\* An exception of the runtime that the code does not catch.
FetchFailed == Err("TypeError", "fetch failed", <<>>)
BodyTerminated == Err("TypeError", "terminated", <<>>)
JsonSyntaxError == Err("SyntaxError", "Unexpected token in JSON", <<>>)
CannotReadProperties ==
    Err("TypeError", "Cannot read properties of undefined", <<>>)

IdleCalls ==
    /\ API_KEY = Undefined
    /\ call = [i \in Calls |-> NoCall]
    /\ pc = [i \in Calls |-> "idle"]
    /\ requests = [i \in Calls |-> <<>>]
    /\ timer = [i \in Calls |-> "unset"]
    /\ elapsedAt = [i \in Calls |-> "never"]
    /\ net = [i \in Calls |-> NoResponse]
    /\ outcome = [i \in Calls |-> Pending]

\* The arguments the callers of the model pass.
ValidAddress ==
    <<"0", "x">> \o BodyWith("1", AddressHexDigits, AddressHexDigits, "F")
CallAddresses ==
    { ValidAddress,
      <<"0", "x">> \o BodyWith("1", AddressHexDigits, 1, "G"),
      <<"0", "x", "1", "2", "3">> }
CallChains == { <<"1">>, <<"B", "S", "C">> }

\* url.searchParams.set(name, value) stores the string form of the value.
ParamString(v) ==
    CASE v.type = "string" -> v
      [] v.type = "number" -> Text(ToString(v.val))
      [] v.type = "function" -> Text("function Object() { [native code] }")
      [] OTHER -> Text("[object Object]")

-----------------------------------------------------------------------------
(* checkHoneypot of honeypot.ts *)

API_URL == "https://api.honeypot.is/v2/IsHoneypot"

InvalidTokenAddress(address) ==
    Err("Error",
        "Invalid token address: ${address}. Address must be a valid Ethereum-style address (0x followed by 40 hex characters).",
        [address |-> Str(address)])
TokenNotFound(chainId) ==
    Err("Error",
        "Token not found or not tradeable on chain ${chainId}. The token may not have liquidity or may not exist on this chain.",
        [chainId |-> chainId])
FailedToCheck(status, statusText) ==
    Err("Error", "Failed to check honeypot status: ${response.status} ${response.statusText}",
        [status |-> Num(status), statusText |-> Text(statusText)])

\* Mutant: the request is issued before the address is looked at.
checkHoneypot_FetchFirst(i) ==
    /\ pc[i] = "idle"
    /\ \E address \in CallAddresses, chain \in CallChains :
        LET chainId == normalizeChainId(Str(chain))
        IN  /\ call' = [call EXCEPT ![i] =
                    [impl |-> "honeypot.ts", address |-> address,
                     chain |-> Str(chain), chainId |-> chainId]]
            /\ requests' = [requests EXCEPT ![i] =
                    Append(@, [url |-> API_URL, method |-> "GET",
                               address |-> Str(address),
                               chainID |-> ParamString(chainId),
                               apiKey |-> Undefined, signal |-> FALSE])]
            /\ pc' = [pc EXCEPT ![i] = "awaitFetch"]
            /\ UNCHANGED outcome
    /\ UNCHANGED <<API_KEY, timer, elapsedAt, net>>

\* checkHoneypot(address, chain) up to its first await: resolve the chain,
\* reject a malformed address, else build the URL and start the fetch.
checkHoneypot(i) ==
    /\ pc[i] = "idle"
    /\ \E address \in CallAddresses, chain \in CallChains :
        LET chainId == normalizeChainId(Str(chain))
        IN  /\ call' = [call EXCEPT ![i] =
                    [impl |-> "honeypot.ts", address |-> address,
                     chain |-> Str(chain), chainId |-> chainId]]
            /\ IF ~isValidAddress(address)
               THEN /\ outcome' = [outcome EXCEPT ![i] = InvalidTokenAddress(address)]
                    /\ pc' = [pc EXCEPT ![i] = "done"]
                    /\ UNCHANGED requests
               ELSE /\ requests' = [requests EXCEPT ![i] =
                            Append(@, [url |-> API_URL, method |-> "GET",
                                       address |-> Str(address),
                                       chainID |-> ParamString(chainId),
                                       apiKey |-> Undefined, signal |-> FALSE])]
                    /\ pc' = [pc EXCEPT ![i] = "awaitFetch"]
                    /\ UNCHANGED outcome
    /\ UNCHANGED <<API_KEY, timer, elapsedAt, net>>

\* checkHoneypot_onFetchError with one retry of the request after a failure.
checkHoneypot_onFetchError_Retry(i) ==
    /\ call[i].impl = "honeypot.ts"
    /\ pc[i] = "awaitFetch"
    /\ IF Len(requests[i]) < 2
       THEN /\ requests' = [requests EXCEPT ![i] = Append(@, @[1])]
            /\ UNCHANGED <<outcome, pc>>
       ELSE /\ outcome' = [outcome EXCEPT ![i] = FetchFailed]
            /\ pc' = [pc EXCEPT ![i] = "done"]
            /\ UNCHANGED requests
    /\ UNCHANGED <<API_KEY, call, timer, elapsedAt, net>>

\* The fetch promise rejects (connection refused, DNS failure, reset): nothing
\* catches it, the TypeError of fetch is what the caller gets.
checkHoneypot_onFetchError(i) ==
    /\ call[i].impl = "honeypot.ts"
    /\ pc[i] = "awaitFetch"
    /\ outcome' = [outcome EXCEPT ![i] = FetchFailed]
    /\ pc' = [pc EXCEPT ![i] = "done"]
    /\ UNCHANGED <<API_KEY, call, requests, timer, elapsedAt, net>>

\* The response head arrives: a non-success status throws (404 apart from
\* the rest), a success status goes on to read the body as JSON.
checkHoneypot_onResponse(i) ==
    /\ call[i].impl = "honeypot.ts"
    /\ pc[i] = "awaitFetch"
    /\ \E status \in Statuses : \E body \in BodiesFor(status) :
        /\ net' = [net EXCEPT ![i] =
                [status |-> status, statusText |-> StatusText(status), body |-> body]]
        /\ IF ~Ok(status)
           THEN /\ outcome' = [outcome EXCEPT ![i] =
                        IF status = 404
                        THEN TokenNotFound(call[i].chainId)
                        ELSE FailedToCheck(status, StatusText(status))]
                /\ pc' = [pc EXCEPT ![i] = "done"]
           ELSE /\ pc' = [pc EXCEPT ![i] = "awaitJson"]
                /\ UNCHANGED outcome
    /\ UNCHANGED <<API_KEY, call, requests, timer, elapsedAt>>

\* Reading isHoneypot of data.honeypotResult, or name of data.chain, throws a
\* TypeError when data or that field is undefined or null.
MappingThrows(data) ==
    \/ Nullish(data)
    \/ Nullish(Get(data, "honeypotResult"))
    \/ Nullish(Get(data, "chain"))

\* Mutant: the tax rates are turned into percentages while mapping.
BuildResult_ScaledTaxes(data) ==
    LET sim == Get(data, "simulationResult")
        pct(v) == IF v.type = "number" THEN Num(v.val * 100) ELSE v
    IN  [isHoneypot |-> Get(Get(data, "honeypotResult"), "isHoneypot"),
         honeypotReason |-> Get(Get(data, "honeypotResult"), "honeypotReason"),
         simulationSuccess |-> Get(data, "simulationSuccess"),
         simulationError |-> Get(data, "simulationError"),
         buyTax |-> pct(Coalesce(OptGet(sim, "buyTax"), Num(0))),
         sellTax |-> pct(Coalesce(OptGet(sim, "sellTax"), Num(0))),
         transferTax |-> pct(Coalesce(OptGet(sim, "transferTax"), Num(0))),
         buyGas |-> OptGet(sim, "buyGas"),
         sellGas |-> OptGet(sim, "sellGas"),
         token |-> Get(data, "token"),
         chain |-> Get(Get(data, "chain"), "name"),
         contractAddress |-> Get(data, "contractAddress"),
         pair |-> Get(data, "pair"),
         flags |-> OrElse(Get(data, "flags"), Arr(<<>>)),
         holderAnalysis |-> Get(data, "holderAnalysis")]

\* The object literal returned by checkHoneypot.
BuildResult(data) ==
    LET sim == Get(data, "simulationResult")
    IN  [isHoneypot |-> Get(Get(data, "honeypotResult"), "isHoneypot"),
         honeypotReason |-> Get(Get(data, "honeypotResult"), "honeypotReason"),
         simulationSuccess |-> Get(data, "simulationSuccess"),
         simulationError |-> Get(data, "simulationError"),
         buyTax |-> Coalesce(OptGet(sim, "buyTax"), Num(0)),
         sellTax |-> Coalesce(OptGet(sim, "sellTax"), Num(0)),
         transferTax |-> Coalesce(OptGet(sim, "transferTax"), Num(0)),
         buyGas |-> OptGet(sim, "buyGas"),
         sellGas |-> OptGet(sim, "sellGas"),
         token |-> Get(data, "token"),
         chain |-> Get(Get(data, "chain"), "name"),
         contractAddress |-> Get(data, "contractAddress"),
         pair |-> Get(data, "pair"),
         flags |-> OrElse(Get(data, "flags"), Arr(<<>>)),
         holderAnalysis |-> Get(data, "holderAnalysis")]

\* The return statement of checkHoneypot on the parsed body.
MapData(data) ==
    IF MappingThrows(data)
    THEN CannotReadProperties
    ELSE Result(BuildResult(data))

\* response.json() settles: a body that is not JSON rejects with a
\* SyntaxError and a broken stream with a TypeError, neither of them caught;
\* a parsed body is mapped to the result.
checkHoneypot_onJson(i) ==
    /\ call[i].impl = "honeypot.ts"
    /\ pc[i] = "awaitJson"
    /\ outcome' = [outcome EXCEPT ![i] =
            LET body == net[i].body
            IN  CASE body.kind = "text" -> JsonSyntaxError
                  [] body.kind = "broken" -> BodyTerminated
                  [] body.kind = "json" -> MapData(body.data)]
    /\ pc' = [pc EXCEPT ![i] = "done"]
    /\ UNCHANGED <<API_KEY, call, requests, timer, elapsedAt, net>>

\* Thirty seconds go by while an invocation that armed no timer is suspended:
\* nothing in the program runs.
ThirtySecondsPass(i) ==
    /\ pc[i] \in Awaiting
    /\ elapsedAt[i] = "never"
    /\ timer[i] # "armed"
    /\ elapsedAt' = [elapsedAt EXCEPT ![i] = pc[i]]
    /\ UNCHANGED <<API_KEY, call, pc, requests, timer, net, outcome>>

-----------------------------------------------------------------------------
(* checkHoneypot of the single-file server (part_000) *)

REQUEST_TIMEOUT_MS == 30000

\* CHAINS and the chains the tool schema lets through (undefined: omitted).
CHAINS ==
    << <<<<"e", "t", "h", "e", "r", "e", "u", "m">>, 1>>,
       <<<<"b", "s", "c">>, 56>>,
       <<<<"b", "a", "s", "e">>, 8453>> >>
ChainNumber(chain) ==
    Num(CHAINS[CHOOSE k \in 1..Len(CHAINS) : CHAINS[k][1] = chain.val][2])
CallChains0 == {Undefined, Str(<<"b", "a", "s", "e">>)}

InvalidAddressFormat ==
    Err("Error",
        "Invalid address format. Expected a 40-character hexadecimal address starting with '0x'",
        <<>>)
RequestTimedOut ==
    Err("Error", "API request timed out after ${REQUEST_TIMEOUT_MS / 1000} seconds",
        [seconds |-> Num(REQUEST_TIMEOUT_MS \div 1000)])
ApiError(status, statusText, errorText) ==
    Err("Error", "API error: ${res.status} ${res.statusText}. ${errorText}",
        [status |-> Num(status), statusText |-> Text(statusText),
         errorText |-> Text(errorText)])
FailedToParse == Err("Error", "Failed to parse API response", <<>>)

\* checkHoneypot(address, chain) up to its first await: reject a malformed
\* address, else set the parameters and the key header, arm the timer and
\* start the fetch with the controller's signal.
checkHoneypot0(i) ==
    /\ pc[i] = "idle"
    /\ \E address \in CallAddresses, chain \in CallChains0 :
        /\ call' = [call EXCEPT ![i] =
                [impl |-> "part_000", address |-> address, chain |-> chain,
                 chainId |-> IF Truthy(chain) THEN ChainNumber(chain)
                                              ELSE Undefined]]
        /\ IF ~RegexTest(AddressPattern, address)
           THEN /\ outcome' = [outcome EXCEPT ![i] = InvalidAddressFormat]
                /\ pc' = [pc EXCEPT ![i] = "done"]
                /\ UNCHANGED <<requests, timer>>
           ELSE /\ timer' = [timer EXCEPT ![i] = "armed"]
                /\ requests' = [requests EXCEPT ![i] =
                        Append(@, [url |-> API_URL, method |-> "GET",
                                   address |-> Str(address),
                                   chainID |-> IF Truthy(chain)
                                               THEN ParamString(ChainNumber(chain))
                                               ELSE Undefined,
                                   apiKey |-> IF Truthy(API_KEY) THEN API_KEY
                                                                 ELSE Undefined,
                                   signal |-> TRUE])]
                /\ pc' = [pc EXCEPT ![i] = "awaitFetch"]
                /\ UNCHANGED outcome
    /\ UNCHANGED <<API_KEY, elapsedAt, net>>

\* checkHoneypot0_onTimeout with one AbortController shared by the module:
\* the abort rejects the pending fetch of every invocation.
checkHoneypot0_onTimeout_SharedController(i) ==
    /\ call[i].impl = "part_000"
    /\ timer[i] = "armed"
    /\ elapsedAt[i] = "never"
    /\ elapsedAt' = [elapsedAt EXCEPT ![i] = pc[i]]
    /\ outcome' = [j \in Calls |->
            IF call[j].impl = "part_000" /\ pc[j] = "awaitFetch"
            THEN RequestTimedOut
            ELSE outcome[j]]
    /\ pc' = [j \in Calls |->
            IF call[j].impl = "part_000" /\ pc[j] = "awaitFetch"
            THEN "done"
            ELSE pc[j]]
    /\ timer' = [timer EXCEPT ![i] = "fired"]
    /\ UNCHANGED <<API_KEY, call, requests, net>>

\* The timer fires after REQUEST_TIMEOUT_MS: controller.abort() rejects the
\* pending fetch with an AbortError, which the catch clause turns into the
\* timeout error (clearTimeout on the fired timer changes nothing).  Were a
\* body read pending instead, its rejection would be handled as any other.
checkHoneypot0_onTimeout(i) ==
    /\ call[i].impl = "part_000"
    /\ timer[i] = "armed"
    /\ elapsedAt[i] = "never"
    /\ elapsedAt' = [elapsedAt EXCEPT ![i] = pc[i]]
    /\ IF pc[i] = "awaitFetch"
       THEN outcome' = [outcome EXCEPT ![i] = RequestTimedOut]
       ELSE outcome' = [outcome EXCEPT ![i] =
                IF pc[i] = "awaitText"
                THEN ApiError(net[i].status, net[i].statusText, "")
                ELSE FailedToParse]
    /\ pc' = [pc EXCEPT ![i] = "done"]
    /\ timer' = [timer EXCEPT ![i] = "fired"]
    /\ UNCHANGED <<API_KEY, call, requests, net>>

\* The fetch promise rejects for a reason other than the abort: the timer is
\* cleared and the error rethrown as it is.
checkHoneypot0_onFetchError(i) ==
    /\ call[i].impl = "part_000"
    /\ pc[i] = "awaitFetch"
    /\ timer' = [timer EXCEPT ![i] = "cleared"]
    /\ outcome' = [outcome EXCEPT ![i] = FetchFailed]
    /\ pc' = [pc EXCEPT ![i] = "done"]
    /\ UNCHANGED <<API_KEY, call, requests, elapsedAt, net>>

\* The response head arrives: the timer is cleared; a non-success status goes
\* on to read the body as text, a success status to read it as JSON.
checkHoneypot0_onResponse(i) ==
    /\ call[i].impl = "part_000"
    /\ pc[i] = "awaitFetch"
    /\ \E status \in Statuses : \E body \in BodiesFor(status) :
        /\ net' = [net EXCEPT ![i] =
                [status |-> status, statusText |-> StatusText(status), body |-> body]]
        /\ pc' = [pc EXCEPT ![i] = IF Ok(status) THEN "awaitJson" ELSE "awaitText"]
    /\ timer' = [timer EXCEPT ![i] = "cleared"]
    /\ UNCHANGED <<API_KEY, call, requests, elapsedAt, outcome>>

\* res.text().catch(() => "") settles: the API error carries the status, the
\* status text and the body text (none when the body could not be read).
checkHoneypot0_onText(i) ==
    /\ call[i].impl = "part_000"
    /\ pc[i] = "awaitText"
    /\ outcome' = [outcome EXCEPT ![i] =
            LET body == net[i].body
                errorText == IF body.kind = "text" THEN body.text ELSE ""
            IN  ApiError(net[i].status, net[i].statusText, errorText)]
    /\ pc' = [pc EXCEPT ![i] = "done"]
    /\ UNCHANGED <<API_KEY, call, requests, timer, elapsedAt, net>>

\* sanitize(str): the characters * _ ` # [ ] removed (the model's strings hold
\* no backquote).
sanitize(v) ==
    Str(SelectSeq(v.val, LAMBDA c : c \notin {"*", "_", "#", "[", "]"}))

\* x?.toString() of a number, in the units of the model.
OptToString(v) == IF Nullish(v) THEN Undefined ELSE Text(ToString(v.val))

\* The markdown text returned by checkHoneypot of part_000, as the values
\* put into its template.
BuildText(data, address, chain) ==
    LET sim == Get(data, "simulationResult")
        openSource == OptGet(Get(data, "contractCode"), "openSource")
    IN  [tokenName |->
            sanitize(Coalesce(OptGet(Get(data, "token"), "name"),
                              Str(<<"U", "n", "k", "n", "o", "w", "n">>))),
         address |-> Str(address),
         chainName |->
            sanitize(Coalesce(Coalesce(OptGet(Get(data, "chain"), "name"), chain),
                              Str(<<"a", "u", "t", "o">>))),
         isHoneypot |->
            IF Truthy(OptGet(Get(data, "honeypotResult"), "isHoneypot"))
            THEN Text("Yes") ELSE Text("No"),
         risk |->
            sanitize(Coalesce(OptGet(Get(data, "summary"), "risk"),
                              Str(<<"u", "n", "k", "n", "o", "w", "n">>))),
         buyTax |-> Coalesce(OptToString(OptGet(sim, "buyTax")), Text("N/A")),
         sellTax |-> Coalesce(OptToString(OptGet(sim, "sellTax")), Text("N/A")),
         transferTax |->
            Coalesce(OptToString(OptGet(sim, "transferTax")), Text("N/A")),
         openSource |->
            IF openSource = Bool(TRUE) THEN Text("Yes")
            ELSE IF openSource = Bool(FALSE) THEN Text("No")
            ELSE Text("Unknown")]

\* res.json() settles: any rejection becomes the parse error; a parsed body
\* is rendered (reading a property of a null body throws, outside the try).
checkHoneypot0_onJson(i) ==
    /\ call[i].impl = "part_000"
    /\ pc[i] = "awaitJson"
    /\ outcome' = [outcome EXCEPT ![i] =
            LET body == net[i].body
            IN  IF body.kind # "json"
                THEN FailedToParse
                ELSE IF Nullish(body.data)
                     THEN CannotReadProperties
                     ELSE Result(BuildText(body.data, call[i].address,
                                           call[i].chain))]
    /\ pc' = [pc EXCEPT ![i] = "done"]
    /\ UNCHANGED <<API_KEY, call, requests, timer, elapsedAt, net>>

-----------------------------------------------------------------------------
(* The server: invocations of checkHoneypot run concurrently *)

InitCalls ==
    /\ API_KEY \in {Undefined, Text("secret")}
    /\ call = [i \in Calls |-> NoCall]
    /\ pc = [i \in Calls |-> "idle"]
    /\ requests = [i \in Calls |-> <<>>]
    /\ timer = [i \in Calls |-> "unset"]
    /\ elapsedAt = [i \in Calls |-> "never"]
    /\ net = [i \in Calls |-> NoResponse]
    /\ outcome = [i \in Calls |-> Pending]

IdleMapping == mData = Undefined /\ mOut = Pending
IdleFormat == fResult = Undefined /\ fOut = Pending
IdleTool == tOut = Pending

Init == InitCalls /\ IdleResolver /\ IdleValidator /\ IdleMapping /\ IdleFormat /\ IdleTool

Next ==
    \/ \E i \in Calls : checkHoneypot(i) /\ UNCHANGED harnessVars
    \/ \E i \in Calls : checkHoneypot_onFetchError(i) /\ UNCHANGED harnessVars
    \/ \E i \in Calls : checkHoneypot_onResponse(i) /\ UNCHANGED harnessVars
    \/ \E i \in Calls : checkHoneypot_onJson(i) /\ UNCHANGED harnessVars
    \/ \E i \in Calls : ThirtySecondsPass(i) /\ UNCHANGED harnessVars
    \/ \E i \in Calls : checkHoneypot0(i) /\ UNCHANGED harnessVars
    \/ \E i \in Calls : checkHoneypot0_onTimeout(i) /\ UNCHANGED harnessVars
    \/ \E i \in Calls : checkHoneypot0_onFetchError(i) /\ UNCHANGED harnessVars
    \/ \E i \in Calls : checkHoneypot0_onResponse(i) /\ UNCHANGED harnessVars
    \/ \E i \in Calls : checkHoneypot0_onText(i) /\ UNCHANGED harnessVars
    \/ \E i \in Calls : checkHoneypot0_onJson(i) /\ UNCHANGED harnessVars

Spec == Init /\ [][Next]_vars

-----------------------------------------------------------------------------
(* The resolver, the validator and the mapping alone, each over its inputs *)

\* The mapping of checkHoneypot (honeypot.ts) applied to each parsed body.
InitMapping ==
    /\ mData \in Payloads
    /\ mOut = Pending

MapPayload ==
    /\ mOut = Pending
    /\ mOut' = MapData(mData)
    /\ UNCHANGED mData

InitMap ==
    /\ InitMapping /\ IdleResolver /\ IdleValidator /\ IdleFormat /\ IdleTool
    /\ IdleCalls
NextMap ==
    MapPayload
    /\ UNCHANGED <<resolverVars, validatorVars, formatVars, toolVars, callVars>>
SpecMap == InitMap /\ [][NextMap]_vars

InitChain ==
    /\ InitResolver /\ IdleValidator /\ IdleMapping /\ IdleFormat /\ IdleTool
    /\ IdleCalls
NextChain ==
    \/ Resolve /\ UNCHANGED <<validatorVars, mappingVars, formatVars, toolVars, callVars>>
    \/ ResolveAgain /\ UNCHANGED <<validatorVars, mappingVars, formatVars, toolVars, callVars>>
SpecChain == InitChain /\ [][NextChain]_vars

InitAddr ==
    /\ InitValidator /\ IdleResolver /\ IdleMapping /\ IdleFormat /\ IdleTool
    /\ IdleCalls
NextAddr ==
    Validate
    /\ UNCHANGED <<resolverVars, mappingVars, formatVars, toolVars, callVars>>
SpecAddr == InitAddr /\ [][NextAddr]_vars

-----------------------------------------------------------------------------
(* Properties of checkHoneypot *)

\* C1: an invocation given an address that is not "0x" plus 40 hex digits
\* ends with the invalid-address error and has issued no outbound request,
\* in every state from its call on.
C1_InvalidAddressNoRequest ==
    \A i \in Calls :
        LET a == call[i].address
            hex == {"0", "1", "2", "3", "4", "5", "6", "7", "8", "9",
                    "a", "b", "c", "d", "e", "f", "A", "B", "C", "D", "E", "F"}
            shaped == /\ Len(a) = 42
                      /\ a[1] = "0"
                      /\ a[2] = "x"
                      /\ \A k \in 3..42 : a[k] \in hex
        IN  (call[i].impl # "none" /\ ~shaped) =>
                /\ pc[i] = "done"
                /\ outcome[i] \in {InvalidTokenAddress(a), InvalidAddressFormat}
                /\ requests[i] = <<>>

\* C1 witness: a malformed address has been rejected, with no request sent,
\* while another invocation has a request in flight.
C1_Witness ==
    \E i, j \in Calls :
        /\ pc[i] = "done"
        /\ outcome[i] = InvalidTokenAddress(call[i].address)
        /\ requests[i] = <<>>
        /\ pc[j] = "awaitFetch"

\* C2: when the 30 seconds run out while the response is still awaited, the
\* request is aborted and the invocation fails with the timeout error; and
\* only then: no other failure is reported as the timeout.
C2_TimeoutAbortsAndIsDistinct ==
    \A i \in Calls :
        /\ elapsedAt[i] = "awaitFetch" =>
                /\ timer[i] = "fired"
                /\ pc[i] = "done"
                /\ outcome[i] = RequestTimedOut
        /\ outcome[i] = RequestTimedOut => elapsedAt[i] = "awaitFetch"

\* C3: a response with a non-success status makes the invocation fail: with
\* the not-found error for 404, and for any other status with another error
\* that carries the status code and the text of the response body.
C3_NonSuccessErrors ==
    \A i \in Calls :
        (pc[i] = "done" /\ net[i].status # 0 /\ ~(net[i].status \in 200..299)) =>
            /\ outcome[i].type = "error"
            /\ IF net[i].status = 404
               THEN outcome[i].message = TokenNotFound(Undefined).message
               ELSE /\ outcome[i].message # TokenNotFound(Undefined).message
                    /\ \E k \in DOMAIN outcome[i].args :
                            outcome[i].args[k] = Num(net[i].status)
                    /\ net[i].body.kind = "text" =>
                            \E k \in DOMAIN outcome[i].args :
                                outcome[i].args[k] = Text(net[i].body.text)

\* C4: a success status with a body that is not JSON makes the invocation
\* fail with the response-parse error, and with no other.
C4_ParseError ==
    \A i \in Calls :
        (pc[i] = "done" /\ net[i].status \in 200..299 /\ net[i].body.kind = "text")
            => outcome[i] = FailedToParse

-----------------------------------------------------------------------------
(* Properties of the mapping *)

\* C5: in the result built from a parsed body, each of buyTax, sellTax and
\* transferTax is the body's simulationResult value as it is (not scaled), or
\* 0 when the value or the whole simulationResult is missing; buyGas and
\* sellGas are absent when missing; pair and holderAnalysis are absent when
\* missing; flags is the body's list as it is, or the empty list when missing.
C5_ResultDefaults ==
    mOut.type = "result" =>
        LET top == mData.props
            r == mOut.value
            hasSim == "simulationResult" \in DOMAIN top
            sim == top.simulationResult.props
            given(f) == hasSim /\ f \in DOMAIN sim /\ sim[f].type = "number"
        IN  /\ \A f \in {"buyTax", "sellTax", "transferTax"} :
                    r[f] = IF given(f) THEN sim[f] ELSE [type |-> "number", val |-> 0]
            /\ \A f \in {"buyGas", "sellGas"} :
                    IF hasSim /\ f \in DOMAIN sim
                    THEN r[f] = sim[f]
                    ELSE r[f].type = "undefined"
            /\ \A f \in {"pair", "holderAnalysis"} :
                    IF f \in DOMAIN top THEN r[f] = top[f] ELSE r[f].type = "undefined"
            /\ IF "flags" \in DOMAIN top
               THEN r.flags = top.flags
               ELSE r.flags = [type |-> "array", items |-> <<>>]

\* C5 witness: a result has been built from a body with taxes but no gas
\* figure for buying, no flags and no pair; and its tax is the body's value.
C5_Witness ==
    /\ mOut.type = "result"
    /\ DOMAIN mData.props \cap {"flags", "pair"} = {}
    /\ "simulationResult" \in DOMAIN mData.props
    /\ mOut.value.sellTax = Num(1250)
    /\ mOut.value.flags = Arr(<<>>)
    /\ mOut.value.pair = Undefined

-----------------------------------------------------------------------------
(* Rendering of values into text *)

\* The characters of s as one string.
RECURSIVE Concat(_)
Concat(s) == IF s = <<>> THEN "" ELSE Head(s) \o Concat(Tail(s))

\* n in decimal, at least w digits wide (zeros in front).
RECURSIVE Pad(_, _)
Pad(n, w) ==
    IF n < 10 /\ w <= 1
    THEN ToString(n)
    ELSE Pad(n \div 10, w - 1) \o ToString(n % 10)

\* `${v}`: the string form of a value inside a template literal.
ToText(v) ==
    CASE v.type = "string" -> IF "val" \in DOMAIN v THEN Concat(v.val) ELSE v.text
      [] v.type = "number" -> ToString(v.val)
      [] v.type = "boolean" -> IF v.val THEN "true" ELSE "false"
      [] v.type = "undefined" -> "undefined"
      [] v.type = "null" -> "null"
      [] OTHER -> "[object Object]"

\* x.toFixed(2) of a rate x held in units of 1/10000: the fraction itself,
\* not multiplied by 100, rounded to two decimals.
PercentFixed2_NoScale(v) ==
    IF v.type # "number"
    THEN "NaN"
    ELSE LET cents == (v.val + 50) \div 100
         IN  ToString(cents \div 100) \o "." \o Pad(cents % 100, 2)

\* (x * 100).toFixed(2) of a rate x held in units of 1/10000: the percentage
\* with two decimals.  toFixed of NaN (x undefined) is "NaN".
PercentFixed2(v) ==
    IF v.type # "number"
    THEN "NaN"
    ELSE IF v.val < 0
         THEN "-" \o ToString((-v.val) \div 100) \o "." \o Pad((-v.val) % 100, 2)
         ELSE ToString(v.val \div 100) \o "." \o Pad(v.val % 100, 2)

\* n.toLocaleString() of a whole number, in the en-US form the tests expect:
\* digits in groups of three.
RECURSIVE GroupThousands(_)
GroupThousands(n) ==
    IF n < 1000
    THEN ToString(n)
    ELSE GroupThousands(n \div 1000) \o "," \o Pad(n % 1000, 3)
LocaleString(v) ==
    IF v.val < 0 THEN "-" \o GroupThousands(-v.val) ELSE GroupThousands(v.val)

\* parseInt(s, 10): white space skipped, an optional sign, then the longest
\* run of digits; NaN when there is none.  The digits are kept as they are
\* (less leading zeros), since the number may be larger than any the model
\* checker computes with.
IsDigit(c) == \E d \in 1..10 : Digits[d] = c
RECURSIVE SkipSpace(_)
SkipSpace(s) ==
    IF s # <<>> /\ Head(s) \in {" ", "\n"} THEN SkipSpace(Tail(s)) ELSE s
RECURSIVE DigitRun(_)
DigitRun(s) ==
    IF s # <<>> /\ IsDigit(Head(s)) THEN <<Head(s)>> \o DigitRun(Tail(s)) ELSE <<>>
RECURSIVE StripZeros(_)
StripZeros(s) ==
    IF Len(s) > 1 /\ Head(s) = "0" THEN StripZeros(Tail(s)) ELSE s
NaN == [type |-> "number", nan |-> TRUE]
ParseInt(s) ==
    LET t == SkipSpace(s)
        negative == t # <<>> /\ Head(t) = "-"
        u == IF t # <<>> /\ Head(t) \in {"-", "+"} THEN Tail(t) ELSE t
        run == DigitRun(u)
    IN  IF run = <<>>
        THEN NaN
        ELSE [type |-> "number", digits |-> StripZeros(run),
              negative |-> negative /\ StripZeros(run) # <<"0">>]

\* The value of a run of digits.
RECURSIVE DigitsValue(_)
DigitsValue(ds) ==
    IF ds = <<>>
    THEN 0
    ELSE 10 * DigitsValue(SubSeq(ds, 1, Len(ds) - 1)) + (CharCode(ds[Len(ds)]) - 48)

\* Whether a digit run is at most another, as numbers.
RECURSIVE DigitsLeq(_, _)
DigitsLeq(a, b) ==
    IF Len(a) # Len(b)
    THEN Len(a) < Len(b)
    ELSE IF a = <<>>
         THEN TRUE
         ELSE IF Head(a) # Head(b)
              THEN CharCode(Head(a)) < CharCode(Head(b))
              ELSE DigitsLeq(Tail(a), Tail(b))

\* new Date(seconds * 1000) is a valid date when the time value is within
\* 8.64e15 ms of the epoch, that is the seconds within 8,640,000,000,000.
MaxDateSeconds == <<"8", "6", "4", "0", "0", "0", "0", "0", "0", "0", "0", "0", "0">>
ValidDate(secs) == ~("nan" \in DOMAIN secs) /\ DigitsLeq(secs.digits, MaxDateSeconds)

\* Date.prototype.toISOString of the date secs seconds after (or before) the
\* epoch: the proleptic Gregorian calendar date and the time of day, UTC.
IsoString(secs) ==
    LET days == secs \div 86400
        tod == secs % 86400
        z == days + 719468
        era == z \div 146097
        doe == z - era * 146097
        yoe == (doe - doe \div 1460 + doe \div 36524 - doe \div 146096) \div 365
        doy == doe - (365 * yoe + yoe \div 4 - yoe \div 100)
        mp == (5 * doy + 2) \div 153
        d == doy - (153 * mp + 2) \div 5 + 1
        m == IF mp < 10 THEN mp + 3 ELSE mp - 9
        y == yoe + era * 400 + (IF m <= 2 THEN 1 ELSE 0)
    IN  Pad(y, 4) \o "-" \o Pad(m, 2) \o "-" \o Pad(d, 2) \o "T"
        \o Pad(tod \div 3600, 2) \o ":" \o Pad((tod % 3600) \div 60, 2) \o ":"
        \o Pad(tod % 60, 2) \o ".000Z"

-----------------------------------------------------------------------------
(* formatHoneypotResult *)

\* The three signs of the banners (warning sign, check mark, cross mark),
\* written here in ASCII.
WarningSign == "(!)"
CheckMark == "(ok)"
CrossMark == "(x)"

HoneypotBanner == WarningSign \o " **WARNING: This token appears to be a HONEYPOT!**"
NotHoneypotBanner == CheckMark \o " **This token does NOT appear to be a honeypot.**"
SimulationOkBanner == CheckMark \o " Trade simulation successful"
SimulationFailedBanner == CrossMark \o " Trade simulation failed"

\* The seconds of the Created line: parseInt(createdAtTimestamp, 10).
CreatedSeconds(pair) == ParseInt(Get(pair, "createdAtTimestamp").val)

\* What formatHoneypotResult throws, if it does: a TypeError on reading a
\* property of a missing token or calling a method of a missing liquidity, a
\* RangeError from toISOString on an invalid date.
FormatThrows(result) ==
    IF Nullish(result.token)
    THEN "TypeError"
    ELSE IF Truthy(result.pair) /\ Nullish(Get(result.pair, "liquidity"))
         THEN "TypeError"
         ELSE IF /\ Truthy(result.pair)
                 /\ Truthy(Get(result.pair, "createdAtTimestamp"))
                 /\ ~ValidDate(CreatedSeconds(result.pair))
              THEN "RangeError"
              ELSE "none"

HeaderLines(result) ==
    << "# Honeypot Analysis for " \o ToText(Get(result.token, "symbol")), "" >>

\* StatusLines with the reason pushed after either banner.
StatusLines_ReasonAfterEither(result) ==
    (IF Truthy(result.isHoneypot)
     THEN <<HoneypotBanner>>
     ELSE <<NotHoneypotBanner>>)
    \o (IF Truthy(result.honeypotReason)
        THEN <<"Reason: " \o ToText(result.honeypotReason)>>
        ELSE <<>>)
    \o <<"">>

StatusLines(result) ==
    (IF Truthy(result.isHoneypot)
     THEN <<HoneypotBanner>> \o
          (IF Truthy(result.honeypotReason)
           THEN <<"Reason: " \o ToText(result.honeypotReason)>>
           ELSE <<>>)
     ELSE <<NotHoneypotBanner>>)
    \o <<"">>

TokenLines(result) ==
    << "## Token Information",
       "- **Name:** " \o ToText(Get(result.token, "name")),
       "- **Symbol:** " \o ToText(Get(result.token, "symbol")),
       "- **Decimals:** " \o ToText(Get(result.token, "decimals")),
       "- **Contract:** " \o ToText(result.contractAddress),
       "- **Chain:** " \o ToText(result.chain),
       "" >>

TaxLines(result) ==
    << "## Tax Analysis",
       "- **Buy Tax:** " \o PercentFixed2(result.buyTax) \o "%",
       "- **Sell Tax:** " \o PercentFixed2(result.sellTax) \o "%",
       "- **Transfer Tax:** " \o PercentFixed2(result.transferTax) \o "%" >>
    \o (IF Truthy(result.buyGas)
        THEN <<"- **Buy Gas:** " \o LocaleString(result.buyGas)>>
        ELSE <<>>)
    \o (IF Truthy(result.sellGas)
        THEN <<"- **Sell Gas:** " \o LocaleString(result.sellGas)>>
        ELSE <<>>)
    \o <<"">>

SimulationLines(result) ==
    <<"## Simulation">>
    \o (IF Truthy(result.simulationSuccess)
        THEN <<SimulationOkBanner>>
        ELSE <<SimulationFailedBanner>> \o
             (IF Truthy(result.simulationError)
              THEN <<"Error: " \o ToText(result.simulationError)>>
              ELSE <<>>))
    \o <<"">>

PairLines(result) ==
    IF Truthy(result.pair)
    THEN << "## Liquidity Pair",
            "- **Pair Address:** " \o ToText(Get(result.pair, "pair")),
            "- **Liquidity:** $" \o LocaleString(Get(result.pair, "liquidity")),
            "- **Router:** " \o ToText(Get(result.pair, "router")) >>
         \o (IF Truthy(Get(result.pair, "createdAtTimestamp"))
             THEN LET secs == CreatedSeconds(result.pair)
                      n == DigitsValue(secs.digits)
                  IN  <<"- **Created:** " \o
                            IsoString(IF secs.negative THEN -n ELSE n)>>
             ELSE <<>>)
         \o <<"">>
    ELSE <<>>

\* FlagLines without the test of the length of the list.
FlagLines_NoLengthTest(result) ==
    IF Truthy(result.flags)
    THEN <<"## Risk Flags">>
         \o [k \in 1..Len(result.flags.items) |->
                "- " \o WarningSign \o " " \o ToText(result.flags.items[k])]
         \o <<"">>
    ELSE <<>>

FlagLines(result) ==
    IF Truthy(result.flags) /\ Len(result.flags.items) > 0
    THEN <<"## Risk Flags">>
         \o [k \in 1..Len(result.flags.items) |->
                "- " \o WarningSign \o " " \o ToText(result.flags.items[k])]
         \o <<"">>
    ELSE <<>>

HolderLines(result) ==
    IF Truthy(result.holderAnalysis)
    THEN LET ha == result.holderAnalysis
         IN  << "## Holder Analysis",
                "- **Total Holders Analyzed:** " \o ToText(Get(ha, "holders")),
                "- **Successful Transactions:** " \o ToText(Get(ha, "successful")),
                "- **Failed Transactions:** " \o ToText(Get(ha, "failed")),
                "- **Siphoned:** " \o ToText(Get(ha, "siphoned")),
                "- **Average Tax:** " \o PercentFixed2(Get(ha, "averageTax")) \o "%",
                "- **Highest Tax:** " \o PercentFixed2(Get(ha, "highestTax")) \o "%",
                "- **High Tax Wallets:** " \o ToText(Get(ha, "highTaxWallets")),
                "" >>
    ELSE <<>>

\* formatHoneypotResult(result): the text, held as the sequence of its lines
\* (lines.join("\n"); the strings put into a line hold no line break), or
\* the exception thrown.
formatHoneypotResult(result) ==
    IF FormatThrows(result) # "none"
    THEN Throw(FormatThrows(result))
    ELSE [type |-> "text",
          lines |-> HeaderLines(result) \o StatusLines(result)
                    \o TokenLines(result) \o TaxLines(result)
                    \o SimulationLines(result) \o PairLines(result)
                    \o FlagLines(result) \o HolderLines(result)]

-----------------------------------------------------------------------------
(* formatHoneypotResult alone, over HoneypotCheckResult records *)

TokenValue ==
    Obj([name |-> Text("Test Token"), symbol |-> Text("TEST"),
         decimals |-> Num(18), totalSupply |-> Text("1000000000000000000000000")])

\* The createdAtTimestamp strings tried: a Unix time in seconds, one before
\* the epoch, the empty string, one that is no number, and one beyond the
\* range of dates.
CreatedAtValues ==
    { Str(<<"1", "7", "0", "0", "0", "0", "0", "0", "0", "0">>),
      Str(<<"-", "8", "6", "4", "0", "1">>),
      Str(<<>>),
      Str(<<"a", "b", "c">>),
      Str(<<"8", "6", "4", "0", "0", "0", "0", "0", "0", "0", "0", "0", "1">>) }

\* Pair blocks: without a creation time, with each of the creation times,
\* and one the upstream sent without a liquidity figure.
PairValues ==
    { Obj(Without(PairProps, "createdAtTimestamp")),
      Obj(Without(PairProps, "liquidity")) }
    \cup { Obj(With(PairProps, "createdAtTimestamp", c)) : c \in CreatedAtValues }

\* Flag lists: none, one, and several, among them texts that read like a
\* section header and like a bullet.
FlagLists ==
    { <<>>,
      <<Text("HIGH_BUY_TAX")>>,
      <<Text("LOW_LIQUIDITY"), Text("HIGH_BUY_TAX")>>,
      <<Text("## Holder Analysis"), Text("HIGH_BUY_TAX"), Text("HIGH_BUY_TAX")>> }

\* Reason and error texts: empty and not.
ReasonTexts == {Text(""), Text("Cannot sell")}
ErrorTexts == {Text(""), Text("Transfer failed")}

FormatInputs ==
    [isHoneypot : {Bool(TRUE), Bool(FALSE)},
     honeypotReason : {Undefined} \cup ReasonTexts,
     simulationSuccess : {Bool(TRUE), Bool(FALSE)},
     simulationError : {Undefined} \cup ErrorTexts,
     buyTax : {Num(100)},
     sellTax : {Num(0), Num(1250)},
     transferTax : {Num(5)},
     buyGas : {Undefined, Num(0), Num(150000)},
     sellGas : {Undefined, Num(200000)},
     token : {TokenValue, Undefined},
     chain : {Text("Ethereum")},
     contractAddress : {Text("0x1234567890123456789012345678901234567890")},
     pair : {Undefined} \cup PairValues,
     flags : {Arr(f) : f \in FlagLists},
     holderAnalysis : {Undefined, Obj(HolderProps)}]

InitFormatter ==
    /\ fResult \in FormatInputs
    /\ fOut = Pending

Format ==
    /\ fOut = Pending
    /\ fOut' = formatHoneypotResult(fResult)
    /\ UNCHANGED fResult

InitFormat ==
    /\ InitFormatter /\ IdleResolver /\ IdleValidator /\ IdleMapping /\ IdleTool
    /\ IdleCalls
NextFormat ==
    Format
    /\ UNCHANGED <<resolverVars, validatorVars, mappingVars, toolVars, callVars>>
SpecFormat == InitFormat /\ [][NextFormat]_vars

-----------------------------------------------------------------------------
(* Properties of formatHoneypotResult *)

SectionHeaders ==
    { "## Token Information", "## Tax Analysis", "## Simulation",
      "## Liquidity Pair", "## Risk Flags", "## Holder Analysis" }
VerdictBanners == {HoneypotBanner, NotHoneypotBanner}
IsSectionHeader(l) == l \in SectionHeaders
IsVerdictBanner(l) == l \in VerdictBanners

\* The bullet of a flag, and the bullets of all the flags tried.
Bullet(flag) == "- " \o WarningSign \o " " \o ToText(flag)
Bullets == UNION { {Bullet(f[k]) : k \in 1..Len(f)} : f \in FlagLists }
IsBullet(l) == l \in Bullets

\* The first place of a line in the text (0 when it is not there).
FirstIndex(lines, l) ==
    IF \E k \in 1..Len(lines) : lines[k] = l
    THEN CHOOSE k \in 1..Len(lines) :
            lines[k] = l /\ \A j \in 1..(k - 1) : lines[j] # l
    ELSE 0

\* The section headers a record calls for, in the fixed order.
ExpectedSections(result) ==
    << "## Token Information", "## Tax Analysis", "## Simulation" >>
    \o (IF Nullish(result.pair) THEN <<>> ELSE <<"## Liquidity Pair">>)
    \o (IF Len(result.flags.items) = 0 THEN <<>> ELSE <<"## Risk Flags">>)
    \o (IF Nullish(result.holderAnalysis) THEN <<>> ELSE <<"## Holder Analysis">>)

\* C10: whenever formatHoneypotResult returns text, its first line is the
\* header, exactly one verdict banner follows before any section, and the
\* section headers of the text are, in this order, Token Information, Tax
\* Analysis, Simulation, then Liquidity Pair if and only if the record has a
\* pair, Risk Flags if and only if the flag list is not empty, and Holder
\* Analysis if and only if the record has a holder analysis; the bullets of
\* the text are one per flag, in the order of the list, directly under the
\* Risk Flags header.
C10_SectionsInOrder ==
    fOut.type = "text" =>
        LET lines == fOut.lines
            flags == fResult.flags.items
            at == FirstIndex(lines, "## Risk Flags")
        IN  /\ lines[1] = "# Honeypot Analysis for " \o ToText(Get(fResult.token, "symbol"))
            /\ Len(SelectSeq(lines, IsVerdictBanner)) = 1
            /\ IsVerdictBanner(lines[3])
            /\ FirstIndex(lines, "## Token Information") > 3
            /\ SelectSeq(lines, IsSectionHeader) = ExpectedSections(fResult)
            /\ SelectSeq(lines, IsBullet) = [k \in 1..Len(flags) |-> Bullet(flags[k])]
            /\ Len(flags) > 0 =>
                   \A k \in 1..Len(flags) : lines[at + k] = Bullet(flags[k])

\* A text with all six sections and three bullets has been produced.
C10_Witness ==
    /\ fOut.type = "text"
    /\ ~Nullish(fResult.pair)
    /\ ~Nullish(fResult.holderAnalysis)
    /\ Len(fResult.flags.items) = 3
    /\ Len(SelectSeq(fOut.lines, IsSectionHeader)) = 6
    /\ Len(SelectSeq(fOut.lines, IsBullet)) = 3


SimulationBanners == {SimulationOkBanner, SimulationFailedBanner}
IsSimulationBanner(l) == l \in SimulationBanners
ReasonLine(text) == "Reason: " \o ToText(text)
ErrorLine(text) == "Error: " \o ToText(text)
IsReasonLine(l) == l \in {ReasonLine(t) : t \in ReasonTexts \cup {Undefined}}
IsErrorLine(l) == l \in {ErrorLine(t) : t \in ErrorTexts \cup {Undefined}}

\* A text is present when it is set and not empty.
TextPresent(v) == v.type = "string" /\ ToText(v) # ""

\* C11: whenever formatHoneypotResult returns text, the text holds exactly
\* one verdict banner, the warning banner if and only if isHoneypot is true,
\* and exactly one simulation banner, the failure banner if and only if
\* simulationSuccess is false; a reason line is there exactly when isHoneypot
\* is true and the reason text is present, and then directly under the
\* warning banner; an error line is there exactly when simulationSuccess is
\* false and the error text is present, and then directly under the failure
\* banner.
C11_OneBannerEach ==
    fOut.type = "text" =>
        LET lines == fOut.lines
            verdicts == SelectSeq(lines, IsVerdictBanner)
            sims == SelectSeq(lines, IsSimulationBanner)
            reasons == SelectSeq(lines, IsReasonLine)
            errors == SelectSeq(lines, IsErrorLine)
            honeypot == fResult.isHoneypot = Bool(TRUE)
            failed == fResult.simulationSuccess = Bool(FALSE)
        IN  /\ verdicts = <<IF honeypot THEN HoneypotBanner ELSE NotHoneypotBanner>>
            /\ sims = <<IF failed THEN SimulationFailedBanner ELSE SimulationOkBanner>>
            /\ reasons = IF honeypot /\ TextPresent(fResult.honeypotReason)
                         THEN <<ReasonLine(fResult.honeypotReason)>>
                         ELSE <<>>
            /\ errors = IF failed /\ TextPresent(fResult.simulationError)
                        THEN <<ErrorLine(fResult.simulationError)>>
                        ELSE <<>>
            /\ reasons # <<>> =>
                   lines[FirstIndex(lines, HoneypotBanner) + 1] = reasons[1]
            /\ errors # <<>> =>
                   lines[FirstIndex(lines, SimulationFailedBanner) + 1] = errors[1]

\* A text with the warning banner and its reason, the failure banner and its
\* error has been produced.
C11_Witness ==
    /\ fOut.type = "text"
    /\ fResult.isHoneypot = Bool(TRUE)
    /\ fResult.simulationSuccess = Bool(FALSE)
    /\ Len(SelectSeq(fOut.lines, IsReasonLine)) = 1
    /\ Len(SelectSeq(fOut.lines, IsErrorLine)) = 1


\* The gas figures tried, and the lines that show them.
GasValues == {Num(0), Num(150000), Num(200000)}
BuyGasLine(v) == "- **Buy Gas:** " \o LocaleString(v)
SellGasLine(v) == "- **Sell Gas:** " \o LocaleString(v)
IsBuyGasLine(l) == l \in {BuyGasLine(v) : v \in GasValues}
IsSellGasLine(l) == l \in {SellGasLine(v) : v \in GasValues}

\* C12: whenever formatHoneypotResult returns text, the text holds the Buy
\* Gas line, with the figure, if and only if the record has a buyGas, and
\* the Sell Gas line if and only if it has a sellGas, whatever the number
\* (0 too).
C12_GasLinesIffPresent ==
    fOut.type = "text" =>
        /\ SelectSeq(fOut.lines, IsBuyGasLine) =
               IF Nullish(fResult.buyGas) THEN <<>> ELSE <<BuyGasLine(fResult.buyGas)>>
        /\ SelectSeq(fOut.lines, IsSellGasLine) =
               IF Nullish(fResult.sellGas) THEN <<>> ELSE <<SellGasLine(fResult.sellGas)>>

-----------------------------------------------------------------------------
(* The tool handlers of the server (index.ts), from the parsed body on *)

\* A rate x * 100, the percentage: rates are held in units of 1/10000, so
\* percentages in units of 1/100, and the number kept is the same.
Percent(rate) == rate

\* 10, the percentage above which get_token_taxes warns, in units of 1/100.
HighTaxPercent == 1000

ToolError(name) == [type |-> "error", name |-> name]
ToolResult(tool, text, structured) ==
    [type |-> "toolResult", tool |-> tool, text |-> text,
     structuredContent |-> structured]

\* The handler of check_honeypot once checkHoneypot has the parsed body: the
\* error of the mapping or of the formatter rejects the call; otherwise the
\* formatted text and some fields of the result are returned.
CheckHoneypotTool(data) ==
    LET r == MapData(data)
        result == r.value
        formattedResult == formatHoneypotResult(result)
    IN  IF r.type = "error"
        THEN ToolError(r.name)
        ELSE IF formattedResult.type = "throw"
             THEN ToolError(formattedResult.error)
             ELSE ToolResult("check_honeypot", formattedResult.lines,
                     [isHoneypot |-> result.isHoneypot,
                      honeypotReason |-> result.honeypotReason,
                      simulationSuccess |-> result.simulationSuccess,
                      buyTax |-> result.buyTax,
                      sellTax |-> result.sellTax,
                      transferTax |-> result.transferTax,
                      tokenName |-> Get(result.token, "name"),
                      tokenSymbol |-> Get(result.token, "symbol"),
                      chain |-> result.chain,
                      flags |-> result.flags,
                      formattedResult |-> formattedResult.lines])

HighSellTaxWarning(pct) ==
    WarningSign \o " High sell tax detected (" \o PercentFixed2(pct)
    \o "%)! This could significantly impact your ability to sell."
HighBuyTaxWarning(pct) ==
    WarningSign \o " High buy tax detected (" \o PercentFixed2(pct) \o "%)!"

\* The warning with >= in place of > in both tests.
TaxWarning_AtThreshold(buyTaxPct, sellTaxPct) ==
    IF sellTaxPct.val >= HighTaxPercent
    THEN Text(HighSellTaxWarning(sellTaxPct))
    ELSE IF buyTaxPct.val >= HighTaxPercent
         THEN Text(HighBuyTaxWarning(buyTaxPct))
         ELSE Undefined

\* let warning; if (sellTaxPct > 10) ... else if (buyTaxPct > 10) ...
TaxWarning(buyTaxPct, sellTaxPct) ==
    IF sellTaxPct.val > HighTaxPercent
    THEN Text(HighSellTaxWarning(sellTaxPct))
    ELSE IF buyTaxPct.val > HighTaxPercent
         THEN Text(HighBuyTaxWarning(buyTaxPct))
         ELSE Undefined

\* The handler of get_token_taxes once checkHoneypot has the parsed body.
GetTokenTaxesTool(data) ==
    LET r == MapData(data)
        result == r.value
        buyTaxPct == Percent(result.buyTax)
        sellTaxPct == Percent(result.sellTax)
        transferTaxPct == Percent(result.transferTax)
        warning == TaxWarning(buyTaxPct, sellTaxPct)
    IN  IF r.type = "error"
        THEN ToolError(r.name)
        ELSE IF Nullish(result.token)
             THEN ToolError("TypeError")
             ELSE ToolResult("get_token_taxes",
                     << "Token: " \o ToText(Get(result.token, "name"))
                            \o " (" \o ToText(Get(result.token, "symbol")) \o ")",
                        "Buy Tax: " \o PercentFixed2(buyTaxPct) \o "%",
                        "Sell Tax: " \o PercentFixed2(sellTaxPct) \o "%",
                        "Transfer Tax: " \o PercentFixed2(transferTaxPct) \o "%" >>
                     \o (IF Truthy(warning) THEN <<"", ToText(warning)>> ELSE <<>>),
                     [buyTax |-> buyTaxPct,
                      sellTax |-> sellTaxPct,
                      transferTax |-> transferTaxPct,
                      tokenName |-> Get(result.token, "name"),
                      tokenSymbol |-> Get(result.token, "symbol"),
                      warning |-> warning])

\* The rates the upstream is made to send: 0, 1%, 2%, 10%, just above 10%,
\* 12.5%.
TaxRates == {Num(0), Num(100), Num(200), Num(1000), Num(1001), Num(1250)}
TransferRates == {Num(0), Num(5), Num(1500)}

\* Bodies given to the tools: every combination of the rates, a body with a
\* tax missing, and bodies without one of the blocks the handlers read.
ToolPayloads ==
    { Obj(With(FullProps, "simulationResult",
               Obj([buyTax |-> b, sellTax |-> s, transferTax |-> t,
                    buyGas |-> Num(150000), sellGas |-> Num(200000)]))) :
        b \in TaxRates, s \in TaxRates, t \in TransferRates }
    \cup { Obj(With(FullProps, "simulationResult",
                    Obj([buyTax |-> b, transferTax |-> Num(0)]))) : b \in TaxRates }
    \cup { Obj(Without(FullProps, f)) :
             f \in {"simulationResult", "token", "honeypotResult", "pair", "flags"} }

InitTools ==
    /\ mData \in ToolPayloads
    /\ mOut = Pending
    /\ tOut = Pending

CallCheckHoneypot ==
    /\ tOut = Pending
    /\ tOut' = CheckHoneypotTool(mData)
    /\ mOut' = MapData(mData)
    /\ UNCHANGED mData

CallGetTokenTaxes ==
    /\ tOut = Pending
    /\ tOut' = GetTokenTaxesTool(mData)
    /\ mOut' = MapData(mData)
    /\ UNCHANGED mData

InitTool == InitTools /\ IdleResolver /\ IdleValidator /\ IdleFormat /\ IdleCalls
NextTool ==
    \/ CallCheckHoneypot /\ UNCHANGED <<resolverVars, validatorVars, formatVars, callVars>>
    \/ CallGetTokenTaxes /\ UNCHANGED <<resolverVars, validatorVars, formatVars, callVars>>
SpecTool == InitTool /\ [][NextTool]_vars


-----------------------------------------------------------------------------
(* Properties of the tax figures *)

\* The two-decimal percentage of each rate tried, written out.
PercentOf(rate) ==
    CASE rate = Num(0) -> "0.00"
      [] rate = Num(5) -> "0.05"
      [] rate = Num(100) -> "1.00"
      [] rate = Num(200) -> "2.00"
      [] rate = Num(1000) -> "10.00"
      [] rate = Num(1001) -> "10.01"
      [] rate = Num(1250) -> "12.50"
      [] rate = Num(1500) -> "15.00"

\* The rate the body gives for a tax, 0 when it gives none.
BodyRate(data, f) ==
    LET sim == Get(data, "simulationResult")
    IN  IF Get(sim, f).type = "number" THEN Get(sim, f) ELSE Num(0)

\* C13: the text of check_honeypot shows, under Tax Analysis, the buy, sell
\* and transfer tax of the body as the fraction times 100 with two decimals
\* and a percent sign (0.01 as 1.00%, 0.02 as 2.00%, 0 as 0.00%), and the
\* result record still holds the fraction as the body gave it: the
\* multiplication happens once, in the formatter.
C13_TaxesTimes100Once ==
    (tOut.type = "toolResult" /\ tOut.tool = "check_honeypot") =>
        LET at == FirstIndex(tOut.text, "## Tax Analysis")
        IN  /\ at > 0
            /\ tOut.text[at + 1] =
                   "- **Buy Tax:** " \o PercentOf(BodyRate(mData, "buyTax")) \o "%"
            /\ tOut.text[at + 2] =
                   "- **Sell Tax:** " \o PercentOf(BodyRate(mData, "sellTax")) \o "%"
            /\ tOut.text[at + 3] =
                   "- **Transfer Tax:** " \o PercentOf(BodyRate(mData, "transferTax")) \o "%"
            /\ mOut.value.buyTax = BodyRate(mData, "buyTax")
            /\ mOut.value.sellTax = BodyRate(mData, "sellTax")
            /\ mOut.value.transferTax = BodyRate(mData, "transferTax")

\* A body with the fractions 0.01, 0.02 and 0 has been formatted, and the
\* text reads 1.00%, 2.00% and 0.00%.
C13_Witness ==
    /\ tOut.type = "toolResult"
    /\ tOut.tool = "check_honeypot"
    /\ BodyRate(mData, "buyTax") = Num(100)
    /\ BodyRate(mData, "sellTax") = Num(200)
    /\ BodyRate(mData, "transferTax") = Num(0)
    /\ \E k \in 1..(Len(tOut.text) - 2) :
          /\ tOut.text[k] = "- **Buy Tax:** 1.00%"
          /\ tOut.text[k + 1] = "- **Sell Tax:** 2.00%"
          /\ tOut.text[k + 2] = "- **Transfer Tax:** 0.00%"


\* Whether a rate of the body is above 10% (0.10 is 1000 units of 1/10000).
AboveTenPercent(data, f) == BodyRate(data, f).val > 1000

IsTaxWarning(l) ==
    l \in {HighSellTaxWarning(r) : r \in TaxRates} \cup {HighBuyTaxWarning(r) : r \in TaxRates}

\* C14: what get_token_taxes returns carries a high-tax warning, in the text
\* and in the structured output alike, if and only if the sell tax or the
\* buy tax of the body is above 10%; with both at 10% or less the text is
\* the four lines alone and the structured warning is undefined.
C14_WarningIffAboveTen ==
    (tOut.type = "toolResult" /\ tOut.tool = "get_token_taxes") =>
        LET high == AboveTenPercent(mData, "sellTax") \/ AboveTenPercent(mData, "buyTax")
            warned == SelectSeq(tOut.text, IsTaxWarning)
        IN  /\ high <=> tOut.structuredContent.warning.type = "string"
            /\ ~high <=> tOut.structuredContent.warning = Undefined
            /\ high <=> Len(warned) = 1
            /\ ~high <=> Len(tOut.text) = 4
            /\ high => warned = <<ToText(tOut.structuredContent.warning)>>

\* The tool has answered for a body with the sell tax at exactly 10% and the
\* buy tax just above, and has warned.
C14_Witness ==
    /\ tOut.type = "toolResult"
    /\ tOut.tool = "get_token_taxes"
    /\ BodyRate(mData, "sellTax") = Num(1000)
    /\ BodyRate(mData, "buyTax") = Num(1001)
    /\ tOut.structuredContent.warning.type = "string"


-----------------------------------------------------------------------------
(* Properties of the mapping on incomplete bodies *)

\* The fields of the result that are not optional (HoneypotCheckResult).
RequiredFields ==
    { "isHoneypot", "simulationSuccess", "buyTax", "sellTax", "transferTax",
      "token", "chain", "contractAddress", "flags" }

\* C15: for every parsed body that is an object, whichever of its fields are
\* missing, the mapping of checkHoneypot returns a result (it does not
\* throw) and no required field of the result is undefined.
C15_MappingTotal ==
    (mOut # Pending /\ mData.type = "object") =>
        /\ mOut.type = "result"
        /\ \A f \in RequiredFields : mOut.value[f].type # "undefined"


-----------------------------------------------------------------------------
(* Properties of an invocation over its lifetime *)

\* C16: in every step, each invocation has issued at most one outbound
\* request, and an invocation that has ended with an error keeps that error
\* and issues no further request: it never turns into a result.
C16_OneRequestErrorsTerminal ==
    [][\A i \in Calls :
          /\ Len(requests'[i]) <= 1
          /\ outcome[i].type = "error" =>
                 /\ outcome'[i] = outcome[i]
                 /\ requests'[i] = requests[i]
                 /\ pc'[i] = pc[i]]_vars

\* One invocation has failed after its request while the other, called
\* later, has gone on to a result.
C16_Witness ==
    \E i, j \in Calls :
        /\ outcome[i].type = "error"
        /\ Len(requests[i]) = 1
        /\ outcome[j].type = "result"
        /\ Len(requests[j]) = 1


\* All that belongs to one invocation.
Own(i) == <<call[i], pc[i], requests[i], timer[i], elapsedAt[i], net[i], outcome[i]>>

\* The result an invocation builds from the response it received itself.
OwnResult(i) ==
    IF call[i].impl = "honeypot.ts"
    THEN BuildResult(net[i].body.data)
    ELSE BuildText(net[i].body.data, call[i].address, call[i].chain)

\* C17: with invocations running concurrently, every step changes the state
\* of one invocation at most (the timer and the abort of one leave the
\* request and the outcome of the others as they were); a timeout error is
\* the outcome only of the invocation whose own timer fired; and the result
\* an invocation returns is the one built from its own response and its own
\* arguments.
C17_Independent ==
    /\ [][\E i \in Calls : \A j \in Calls \ {i} : Own(j)' = Own(j)]_vars
    /\ [](\A i \in Calls :
            /\ outcome[i] = RequestTimedOut => timer[i] = "fired"
            /\ outcome[i].type = "result" =>
                   /\ net[i].body.kind = "json"
                   /\ outcome[i].value = OwnResult(i))

\* Two invocations of the single-file server overlapped: the timer of one
\* fired while the other was awaiting its response, and that other one then
\* received it and returned a result.
C17_Witness ==
    \E i, j \in Calls :
        /\ i # j
        /\ call[i].impl = "part_000"
        /\ call[j].impl = "part_000"
        /\ outcome[i] = RequestTimedOut
        /\ outcome[j].type = "result"
        /\ timer[j] = "cleared"


-----------------------------------------------------------------------------
(* Termination of an invocation *)

\* The server with what the runtime guarantees: a timer that is armed fires
\* when its time is up.  Nothing makes the upstream answer, or go on sending
\* a body it has begun.
Fairness ==
    \A i \in Calls : WF_vars(checkHoneypot0_onTimeout(i) /\ UNCHANGED harnessVars)
SpecLive == Init /\ [][Next]_vars /\ Fairness

\* C18: an invocation that is awaiting the response, the text of an error
\* body or the JSON of a success body eventually completes, with a result or
\* an error, whether or not the upstream sends anything more.
C18_EventuallyCompletes ==
    \A i \in Calls : (pc[i] \in Awaiting) ~> (outcome[i] # Pending)


-----------------------------------------------------------------------------
(* Totality of formatHoneypotResult *)

\* A record with all its required fields set: a token, and a liquidity
\* figure in the pair when there is a pair.
WellFormed(result) ==
    /\ ~Nullish(result.token)
    /\ ~Nullish(result.pair) => ~Nullish(Get(result.pair, "liquidity"))

\* C19: for every record with its required fields set, whatever optional
\* fields it has and whatever string createdAtTimestamp is (a number, not a
\* number, empty), formatHoneypotResult returns text: it does not throw.
C19_FormatTotal ==
    (fOut # Pending /\ WellFormed(fResult)) => fOut.type = "text"

=============================================================================
